---- MODULE Spec2Model ----
(***************************************************************************)
(* Model of the anomaly synthesis of pyc-carbonnet:                        *)
(*   - generateDummyAnomalies / generateAnomaliesAroundPoint (the          *)
(*     standalone anomaly layer module), specification SpecGen;            *)
(*   - the VerificationStep component's detectAnomalies and its mount      *)
(*     effect, specification Spec.                                         *)
(* JavaScript numbers are modelled as exact rationals extended with NaN    *)
(* and the two infinities; binary rounding of doubles is not modelled.     *)
(***************************************************************************)
EXTENDS Integers, Sequences, FiniteSets, TLC

VARIABLES
    \* ---- generateDummyAnomalies (one call) ----
    pc,             \* position of the call: "call", "loop", "done"
    centerPolygon,  \* argument centerPolygon: Null or a sequence of points
    count,          \* argument count
    center,         \* generateAnomaliesAroundPoint's center, NoCenter before the call
    i,              \* loop variable of generateAnomaliesAroundPoint
    genAnomalies,   \* the local array `anomalies` of generateAnomaliesAroundPoint
    severityIndex,  \* the last drawn severityIndex (-1 before the first draw)
    typeIndex,      \* the last drawn typeIndex (-1 before the first draw)
    result,         \* the returned array, Null until the call returns
    \* ---- VerificationStep component ----
    mounted,                \* the component is mounted
    carbonMetrics,          \* context value: Null or [carbonStocks, forestGrowth, area]
    drawnArea,              \* what getDrawnArea() returns: Null or a sequence of points
    registryPresent,        \* whether window.addAnomalyLayer is defined
    effectPending,          \* the mount effect's dependencies changed since it last ran
    anomalies,              \* useState<AnomalyInfo[]>
    anomalyLayersRef,       \* anomalyLayersRef.current
    registryCalls,          \* window.addAnomalyLayer calls made by the last effect run
    lastRun,                \* how the last detectAnomalies run ended: "none", "early", "full"
    verificationInProgress, \* useState(true)
    pendingTimers,          \* the number of armed 8 s timeouts
    selectedAnomaly,        \* useState<AnomalyInfo | null>(null)
    showAnomalyDetails,     \* useState(false)
    lastEvent,              \* the last user event handled, with what it saw
    \* ---- AnomalyDetectionLayer.renderLayers (one call) ----
    layerData,              \* props.data: Null or [anomalies, selectedId]
    renderedLayers,         \* what renderLayers returned, Null before the call
    \* ---- the widget's Content component ----
    step,                   \* useState<Step>("draw")
    drawingMode,            \* the drawing context's drawingMode
    contextCalls            \* the calls the last handler made, in order

\* the variables of the layer's renderLayers, of the component's user events
\* and of the widget, which no step of the two generators changes
layerVars == <<layerData, renderedLayers>>
uiVars == <<selectedAnomaly, showAnomalyDetails, lastEvent>>
widgetVars == <<step, drawingMode, contextCalls>>
otherVars == <<layerVars, uiVars, widgetVars>>

genVars == <<pc, centerPolygon, count, center, i, genAnomalies, severityIndex,
             typeIndex, result, otherVars>>
compVars == <<mounted, carbonMetrics, drawnArea, registryPresent, effectPending,
              anomalies, anomalyLayersRef, registryCalls, lastRun,
              verificationInProgress, pendingTimers, otherVars>>
vars == <<genVars, compVars>>

(***************************************************************************)
(* Bounds of the model.                                                    *)
(***************************************************************************)
\* Math.random() returns one of k / RandDen, k in 0 .. RandDen - 1
RandDen == 10
\* count ranges over 0 .. MaxCount
MaxCount == 2
\* the largest polygon has MaxVerts vertices
MaxVerts == 3
\* carbonStocks ranges over 0 .. MaxStocks
MaxStocks == 7
\* forestGrowth ranges over 0 .. MaxGrowth
MaxGrowth == 1

\* a nullable value is held as a sequence: empty for null, <<v>> for the value v
Null == <<>>
Some(v) == <<v>>
IsNull(x) == x = <<>>
Val(x) == x[1]
Undefined == "undefined"

(***************************************************************************)
(* JavaScript numbers: finite rationals n/d in lowest terms, NaN, +-Inf.   *)
(***************************************************************************)
Abs(x) == IF x < 0 THEN -x ELSE x

RECURSIVE Gcd(_, _)
Gcd(a, b) == IF b = 0 THEN a ELSE Gcd(b, a % b)

Lcm(a, b) == (a \div Gcd(a, b)) * b

Fin(n, d) ==
    LET g == Gcd(Abs(n), Abs(d))
        s == IF d < 0 THEN -1 ELSE 1
    IN  [k |-> "fin", n |-> s * (n \div g), d |-> s * (d \div g)]

NaN == [k |-> "nan", n |-> 0, d |-> 1]
PInf == [k |-> "inf", n |-> 1, d |-> 1]
NInf == [k |-> "inf", n |-> -1, d |-> 1]

IsFin(a) == a.k = "fin"
IsNaN(a) == a.k = "nan"
IsInf(a) == a.k = "inf"
Sign(a) == IF a.n > 0 THEN 1 ELSE IF a.n < 0 THEN -1 ELSE 0

\* the numerator of finite a over the denominator m, m a multiple of a.d
NumOver(a, m) == a.n * (m \div a.d)

JsNeg(a) == IF IsNaN(a) THEN NaN ELSE [a EXCEPT !.n = -a.n]

JsAdd(a, b) ==
    IF IsNaN(a) \/ IsNaN(b) THEN NaN
    ELSE IF IsInf(a) /\ IsInf(b) THEN (IF a.n = b.n THEN a ELSE NaN)
    ELSE IF IsInf(a) THEN a
    ELSE IF IsInf(b) THEN b
    ELSE LET m == Lcm(a.d, b.d) IN Fin(NumOver(a, m) + NumOver(b, m), m)

JsSub(a, b) == JsAdd(a, JsNeg(b))

JsMul(a, b) ==
    IF IsNaN(a) \/ IsNaN(b) THEN NaN
    ELSE IF IsInf(a) \/ IsInf(b)
         THEN (IF Sign(a) * Sign(b) = 0 THEN NaN
               ELSE IF Sign(a) * Sign(b) > 0 THEN PInf ELSE NInf)
    ELSE LET g1 == Gcd(Abs(a.n), b.d)
             g2 == Gcd(Abs(b.n), a.d)
         IN  Fin((a.n \div g1) * (b.n \div g2), (a.d \div g2) * (b.d \div g1))

JsDiv(a, b) ==
    IF IsNaN(a) \/ IsNaN(b) THEN NaN
    ELSE IF IsInf(a) /\ IsInf(b) THEN NaN
    ELSE IF IsInf(a) THEN (IF Sign(a) * Sign(b) < 0 THEN NInf ELSE PInf)
    ELSE IF IsInf(b) THEN Fin(0, 1)
    ELSE IF b.n = 0
         THEN (IF a.n = 0 THEN NaN ELSE IF a.n > 0 THEN PInf ELSE NInf)
    ELSE JsMul(a, Fin(b.d, b.n))

\* a < b, a <= b, a > b as JavaScript compares: false when either is NaN
JsLt(a, b) ==
    IF IsNaN(a) \/ IsNaN(b) THEN FALSE
    ELSE IF IsInf(a) THEN a.n < 0 /\ ~(IsInf(b) /\ b.n < 0)
    ELSE IF IsInf(b) THEN b.n > 0
    ELSE LET m == Lcm(a.d, b.d) IN NumOver(a, m) < NumOver(b, m)

JsLeq(a, b) == ~IsNaN(a) /\ ~IsNaN(b) /\ (a = b \/ JsLt(a, b))
JsGt(a, b) == JsLt(b, a)

\* Math.min, Math.max
JsMin(a, b) == IF IsNaN(a) \/ IsNaN(b) THEN NaN ELSE IF JsLt(b, a) THEN b ELSE a
JsMax(a, b) == IF IsNaN(a) \/ IsNaN(b) THEN NaN ELSE IF JsLt(a, b) THEN b ELSE a

\* Math.floor of a finite number, as an integer
Floor(a) == a.n \div a.d

\* Math.random(): the draws k / RandDen, all in [0, 1)
RandomDraws == {Fin(k, RandDen) : k \in 0 .. RandDen - 1}
\* the smallest and the largest draw
EdgeDraws == {Fin(0, 1), Fin(RandDen - 1, RandDen)}

\* Array.prototype.reduce((sum, point) => sum + point[axis], 0)
RECURSIVE SumAxis(_, _)
SumAxis(polygon, axis) ==
    IF polygon = <<>> THEN Fin(0, 1)
    ELSE JsAdd(SumAxis(SubSeq(polygon, 1, Len(polygon) - 1), axis),
               polygon[Len(polygon)][axis])

\* the vertex average of one axis: reduce(...) / polygon.length
AxisAverage(polygon, axis) == JsDiv(SumAxis(polygon, axis), Fin(Len(polygon), 1))

(***************************************************************************)
(* The polygons the model draws its inputs from: the prefixes of a fixed   *)
(* vertex list.                                                            *)
(***************************************************************************)
Vertex(j) == <<Fin(100 + (j % 3), 1), Fin((j \div 2) % 3, 1)>>
Polygon(n) == [j \in 1 .. n |-> Vertex(j)]

(***************************************************************************)
(* generateDummyAnomalies and generateAnomaliesAroundPoint.                *)
(***************************************************************************)
defaultCenter == <<Fin(1014383, 10000), Fin(5104, 10000)>>
NoCenter == <<NaN, NaN>>

anomalyTypes == <<
    [type |-> "Deforestation",
     description |-> "Potential unauthorized clearing detected"],
    [type |-> "Carbon Stock Inconsistency",
     description |-> "Reported vs measured stock discrepancy"],
    [type |-> "Boundary Violation",
     description |-> "Project boundary overlap with restricted area"],
    [type |-> "Degradation",
     description |-> "Forest degradation above expected threshold"],
    [type |-> "Reporting Error",
     description |-> "Measurement data inconsistent with satellite imagery"],
    [type |-> "Conversion Risk",
     description |-> "High risk of land-use conversion detected"],
    [type |-> "Illegal Activity",
     description |-> "Signs of unauthorized activity detected"] >>

severityLevels == << "high", "high",
                     "medium", "medium", "medium", "medium", "medium",
                     "low", "low", "low" >>

scale == Fin(2, 100)

\* array[index] of a JavaScript array held as a sequence: undefined out of range
ArrayAt(array, index) ==
    IF index \in 0 .. Len(array) - 1 THEN array[index + 1] ELSE Undefined

\* (Math.random() - 0.5) * scale * 2
OffsetNoCentering(u) == JsMul(JsMul(u, scale), Fin(2, 1))
Offset(u) == JsMul(JsMul(JsSub(u, Fin(1, 2)), scale), Fin(2, 1))

\* Math.floor(Math.random() * array.length)
DrawIndex(u, array) == Floor(JsMul(u, Fin(Len(array), 1)))

\* const severityIndex = Math.floor(Math.random() * severityLevels.length)
SeverityIndexOffByOne(u) == DrawIndex(u, severityLevels) + 1
SeverityIndex(u) == DrawIndex(u, severityLevels)

\* const radiusMap = { high: 300, medium: 200, low: 150 }; radiusMap[severity]
radiusMapSwapped(severity) ==
    CASE severity = "high" -> 150
      [] severity = "medium" -> 200
      [] severity = "low" -> 300
      [] OTHER -> Undefined
radiusMap(severity) ==
    CASE severity = "high" -> 300
      [] severity = "medium" -> 200
      [] severity = "low" -> 150
      [] OTHER -> Undefined

\* the id of the record pushed in iteration idx
IdOfIndex(idx) == idx
IdOf(idx) == idx + 1

\* the record pushed by one iteration of the loop
AnomalyPoint(c, idx, lngOffset, latOffset, tIdx, sIdx) ==
    LET severity == ArrayAt(severityLevels, sIdx)
        entry == ArrayAt(anomalyTypes, tIdx)
    IN  [id |-> IdOf(idx),
         position |-> <<JsAdd(c[1], lngOffset), JsAdd(c[2], latOffset)>>,
         severity |-> severity,
         type |-> entry.type,
         description |-> entry.description,
         radius |-> radiusMap(severity)]

\* !centerPolygon || centerPolygon.length < 3
UseDefaultBelowTwo(polygon) == IsNull(polygon) \/ Len(Val(polygon)) < 2
UseDefault(polygon) == IsNull(polygon) \/ Len(Val(polygon)) < 3

\* the center generateDummyAnomalies passes to generateAnomaliesAroundPoint
CenterOf(polygon) ==
    IF UseDefault(polygon) THEN defaultCenter
    ELSE <<AxisAverage(Val(polygon), 1), AxisAverage(Val(polygon), 2)>>

\* entry of generateDummyAnomalies: the center is chosen, the loop starts
generateDummyAnomalies ==
    /\ pc = "call"
    /\ center' = CenterOf(centerPolygon)
    /\ i' = 0
    /\ genAnomalies' = <<>>
    /\ pc' = "loop"
    /\ UNCHANGED <<centerPolygon, count, severityIndex, typeIndex, result, compVars>>

\* one iteration of the for loop: four draws of Math.random(), one push
LoopIteration ==
    /\ pc = "loop"
    /\ i < count
    /\ \E uLng \in EdgeDraws, uLat \in EdgeDraws, uType \in EdgeDraws,
          uSev \in RandomDraws :
          LET tIdx == DrawIndex(uType, anomalyTypes)
              sIdx == SeverityIndex(uSev)
          IN  /\ typeIndex' = tIdx
              /\ severityIndex' = sIdx
              /\ genAnomalies' = Append(genAnomalies,
                     AnomalyPoint(center, i, Offset(uLng), Offset(uLat), tIdx, sIdx))
    /\ i' = i + 1
    /\ UNCHANGED <<pc, centerPolygon, count, center, result, compVars>>

\* the loop condition fails: return anomalies
Return ==
    /\ pc = "loop"
    /\ ~(i < count)
    /\ result' = Some(genAnomalies)
    /\ pc' = "done"
    /\ UNCHANGED <<centerPolygon, count, center, i, genAnomalies, severityIndex,
                   typeIndex, compVars>>

GenIdle ==
    /\ pc = "call"
    /\ center = NoCenter
    /\ i = 0
    /\ genAnomalies = <<>>
    /\ severityIndex = -1
    /\ typeIndex = -1
    /\ result = Null

\* the component after construction and its first render: the useState and
\* useRef initial values, the mount effect still to run
Constructed ==
    /\ mounted = TRUE
    /\ effectPending = TRUE
    /\ anomalies = <<>>
    /\ anomalyLayersRef = <<>>
    /\ registryCalls = <<>>
    /\ lastRun = "none"
    /\ verificationInProgress = TRUE
    /\ pendingTimers = 0
    /\ selectedAnomaly = Null
    /\ showAnomalyDetails = FALSE
    /\ lastEvent = <<"none">>

\* renderLayers not called yet
LayerIdle == layerData = Null /\ renderedLayers = Null

\* the widget after construction, drawing mode off
WidgetIdle == step = "draw" /\ drawingMode = FALSE /\ contextCalls = <<>>

InitGen ==
    /\ centerPolygon \in {Null} \cup {Some(Polygon(n)) : n \in 0 .. MaxVerts}
    /\ count \in 0 .. MaxCount
    /\ GenIdle
    /\ LayerIdle
    /\ WidgetIdle
    /\ Constructed
    /\ carbonMetrics = Null
    /\ drawnArea = Null
    /\ registryPresent = FALSE

NextGen == generateDummyAnomalies \/ LoopIteration \/ Return

SpecGen == InitGen /\ [][NextGen]_vars

(***************************************************************************)
(* The VerificationStep component: detectAnomalies and the mount effect.   *)
(***************************************************************************)
\* a JavaScript value used as a condition; area is Null when the field is missing
Truthy(x) == ~IsNull(x) /\ ~IsNaN(Val(x)) /\ Val(x).n # 0

\* forestGrowthPercentage.toFixed(1), in tenths (halves round away from zero)
ToFixed1(x) ==
    IF ~IsFin(x) THEN x.k
    ELSE LET t == JsMul(x, Fin(10, 1))
         IN  Sign(t) * ((2 * Abs(t.n) + t.d) \div (2 * t.d))

calculateForestGrowthPercentageNoGuard(metrics) ==
    IF IsNull(metrics) THEN Fin(0, 1)
    ELSE LET baseline2017 == JsSub(Val(metrics).carbonStocks, Val(metrics).forestGrowth)
         IN  JsMul(JsDiv(Val(metrics).forestGrowth, baseline2017), Fin(100, 1))
calculateForestGrowthPercentage(metrics) ==
    IF IsNull(metrics) THEN Fin(0, 1)
    ELSE LET baseline2017 == JsSub(Val(metrics).carbonStocks, Val(metrics).forestGrowth)
         IN  IF baseline2017 = Fin(0, 1) THEN Fin(0, 1)
             ELSE JsMul(JsDiv(Val(metrics).forestGrowth, baseline2017), Fin(100, 1))

\* const hasHighGrowthAnomaly = forestGrowthPercentage > 20
hasHighGrowthAnomalyAtLeast(percentage) == JsLeq(Fin(20, 1), percentage)
hasHighGrowthAnomaly(percentage) == JsGt(percentage, Fin(20, 1))

RECURSIVE getBoundingBox(_)
getBoundingBox(polygon) ==
    IF polygon = <<>>
    THEN [minLon |-> PInf, maxLon |-> NInf, minLat |-> PInf, maxLat |-> NInf]
    ELSE LET rest == getBoundingBox(SubSeq(polygon, 1, Len(polygon) - 1))
             point == polygon[Len(polygon)]
         IN  [minLon |-> JsMin(rest.minLon, point[1]),
              maxLon |-> JsMax(rest.maxLon, point[1]),
              minLat |-> JsMin(rest.minLat, point[2]),
              maxLat |-> JsMax(rest.maxLat, point[2])]

\* getRandomPointInPolygon with its two draws of Math.random()
getRandomPointInPolygonUnscaled(polygon, uLon, uLat) ==
    LET bbox == getBoundingBox(polygon)
    IN  <<JsAdd(bbox.minLon, JsMul(JsAdd(uLon, Fin(1, 1)), JsSub(bbox.maxLon, bbox.minLon))),
          JsAdd(bbox.minLat, JsMul(uLat, JsSub(bbox.maxLat, bbox.minLat)))>>
getRandomPointInPolygon(polygon, uLon, uLat) ==
    LET bbox == getBoundingBox(polygon)
    IN  <<JsAdd(bbox.minLon, JsMul(uLon, JsSub(bbox.maxLon, bbox.minLon))),
          JsAdd(bbox.minLat, JsMul(uLat, JsSub(bbox.maxLat, bbox.minLat)))>>

\* the record pushed when hasHighGrowthAnomaly
GrowthAnomaly(polygon, percentage) ==
    [id |-> 1,
     severity |-> "high",
     type |-> "Unusual Carbon Growth",
     description |-> <<"Detected ", ToFixed1(percentage),
                       "% growth in carbon stocks between 2015-2020">>,
     location |-> <<AxisAverage(polygon, 1), AxisAverage(polygon, 2)>>]

\* the three records pushed when carbonMetrics.area is truthy; u holds the
\* six draws in call order
DemoAnomalies(polygon, u) ==
    << [id |-> 2,
        severity |-> "medium",
        type |-> "Boundary Inconsistency",
        description |-> <<"Project boundary overlaps with a protected area">>,
        location |-> getRandomPointInPolygon(polygon, u[1], u[2])],
       [id |-> 3,
        severity |-> "medium",
        type |-> "LULC Classification Error",
        description |-> <<"Land use classification appears inconsistent">>,
        location |-> getRandomPointInPolygon(polygon, u[3], u[4])],
       [id |-> 4,
        severity |-> "high",
        type |-> "Potential Deforestation",
        description |-> <<"Small area of forest loss detected">>,
        location |-> getRandomPointInPolygon(polygon, u[5], u[6])] >>

\* if (carbonMetrics.area) { ... }
DemoRuleFires(metrics) == Truthy(Val(metrics).area)

\* the local array detectedAnomalies at setAnomalies(detectedAnomalies)
GrowthLast(growth, demo) == demo \o growth
InRuleOrder(growth, demo) == growth \o demo

DetectedAnomalies(polygon, metrics, u) ==
    LET percentage == calculateForestGrowthPercentage(metrics)
        growth == IF hasHighGrowthAnomaly(percentage)
                  THEN <<GrowthAnomaly(polygon, percentage)>> ELSE <<>>
        demo == IF DemoRuleFires(metrics) THEN DemoAnomalies(polygon, u) ELSE <<>>
    IN  InRuleOrder(growth, demo)

\* features of the anomaly-points layer
PointFeatures(detected) ==
    [j \in 1 .. Len(detected) |->
        [properties |-> [id |-> detected[j].id,
                         severity |-> detected[j].severity,
                         type |-> detected[j].type,
                         description |-> detected[j].description],
         coordinates |-> detected[j].location]]

\* the area features with the ring left open: the closing coordinate missing
AreaFeaturesOpenRing(detected) ==
    [j \in 1 .. Len(detected) |->
        LET lon == detected[j].location[1]
            lat == detected[j].location[2]
            offset == Fin(5, 1000)
        IN  [properties |-> [id |-> detected[j].id,
                             severity |-> detected[j].severity],
             coordinates |-> << <<JsSub(lon, offset), JsSub(lat, offset)>>,
                                <<JsAdd(lon, offset), JsSub(lat, offset)>>,
                                <<JsAdd(lon, offset), JsAdd(lat, offset)>>,
                                <<JsSub(lon, offset), JsAdd(lat, offset)>> >>]]

\* features of the anomaly-areas layer: a closed square ring around the point
AreaFeatures(detected) ==
    [j \in 1 .. Len(detected) |->
        LET lon == detected[j].location[1]
            lat == detected[j].location[2]
            offset == Fin(5, 1000)
        IN  [properties |-> [id |-> detected[j].id,
                             severity |-> detected[j].severity],
             coordinates |-> << <<JsSub(lon, offset), JsSub(lat, offset)>>,
                                <<JsAdd(lon, offset), JsSub(lat, offset)>>,
                                <<JsAdd(lon, offset), JsAdd(lat, offset)>>,
                                <<JsSub(lon, offset), JsAdd(lat, offset)>>,
                                <<JsSub(lon, offset), JsSub(lat, offset)>> >>]]

\* [anomalyAreasLayer, anomalyPointsLayer]
Layers(detected) ==
    << [id |-> "anomaly-areas", features |-> AreaFeatures(detected)],
       [id |-> "anomaly-points", features |-> PointFeatures(detected)] >>

\* the two calls with the points layer registered first
RegistrationsPointsFirst ==
    << [id |-> "anomaly-points", name |-> "Anomaly Points",
        color |-> <<255, 0, 0>>, visible |-> TRUE],
       [id |-> "anomaly-areas", name |-> "Anomaly Areas",
        color |-> <<255, 0, 0>>, visible |-> TRUE] >>

\* the two window.addAnomalyLayer calls
Registrations ==
    << [id |-> "anomaly-areas", name |-> "Anomaly Areas",
        color |-> <<255, 0, 0>>, visible |-> TRUE],
       [id |-> "anomaly-points", name |-> "Anomaly Points",
        color |-> <<255, 0, 0>>, visible |-> TRUE] >>

\* if (!drawnArea || !carbonMetrics) return;   an empty array is truthy
ReturnsEarly == IsNull(drawnArea) \/ IsNull(carbonMetrics)

\* the six draws a run makes, in call order: each getRandomPointInPolygon
\* call draws a corner of the unit square; a run that makes no draw is given
\* one choice
CornerDraws == {<<u, u>> : u \in EdgeDraws}
DrawsOfRun ==
    IF ~ReturnsEarly /\ DemoRuleFires(carbonMetrics)
    THEN {a \o b \o c : a \in CornerDraws, b \in CornerDraws, c \in CornerDraws}
    ELSE {<<Fin(0, 1), Fin(0, 1), Fin(0, 1), Fin(0, 1), Fin(0, 1), Fin(0, 1)>>}

\* detectAnomalies, from the early return to the registration of the layers
detectAnomalies ==
    IF ReturnsEarly
    THEN /\ lastRun' = "early"
         /\ registryCalls' = <<>>
         /\ UNCHANGED <<anomalies, anomalyLayersRef>>
    ELSE \E detected \in {DetectedAnomalies(Val(drawnArea), carbonMetrics, u) :
                              u \in DrawsOfRun} :
             /\ lastRun' = "full"
             /\ anomalies' = detected
             /\ IF Len(detected) > 0
                THEN /\ anomalyLayersRef' = Layers(detected)
                     /\ registryCalls' = IF registryPresent THEN Registrations ELSE <<>>
                ELSE UNCHANGED anomalyLayersRef /\ registryCalls' = <<>>

\* return () => clearTimeout(timer): the effect's timer, if still armed, is
\* disarmed
clearTimeoutForgotten(armed) == armed
clearTimeout(armed) == IF armed > 0 THEN armed - 1 ELSE armed

\* the mount effect: the previous run's cleanup clears its timer, then
\* detectAnomalies() runs and the 8 s timer is armed
RunEffect ==
    /\ mounted /\ effectPending
    /\ detectAnomalies
    /\ pendingTimers' = clearTimeout(pendingTimers) + 1
    /\ effectPending' = FALSE
    /\ UNCHANGED <<mounted, carbonMetrics, drawnArea, registryPresent,
                   verificationInProgress, genVars>>

\* the values the drawing context can supply
Metrics(cs, fg, a) ==
    Some([carbonStocks |-> Fin(cs, 1), forestGrowth |-> Fin(fg, 1), area |-> a])
\* no metrics; every carbonStocks and forestGrowth with a non-zero area; a
\* missing and a zero area, with a growth above (100 %) and below the threshold
MetricsInputs ==
    {Null}
    \cup {Metrics(cs, fg, Some(Fin(1, 1))) : cs \in 0 .. MaxStocks, fg \in 0 .. MaxGrowth}
    \cup {Metrics(cs, 1, a) : cs \in {2, MaxStocks}, a \in {Null, Some(Fin(0, 1))}}
AreaInputs == {Null} \cup {Some(Polygon(n)) : n \in {0, 1, MaxVerts}}

\* the context supplies a new carbonMetrics: a dependency of the effect changed
SetCarbonMetrics ==
    /\ mounted
    /\ \E m \in MetricsInputs : m # carbonMetrics /\ carbonMetrics' = m
    /\ effectPending' = TRUE
    /\ UNCHANGED <<mounted, drawnArea, registryPresent, anomalies, anomalyLayersRef,
                   registryCalls, lastRun, verificationInProgress, pendingTimers, genVars>>

\* the context supplies a new getDrawnArea: a dependency of the effect changed
SetDrawnArea ==
    /\ mounted
    /\ \E a \in AreaInputs : a # drawnArea /\ drawnArea' = a
    /\ effectPending' = TRUE
    /\ UNCHANGED <<mounted, carbonMetrics, registryPresent, anomalies, anomalyLayersRef,
                   registryCalls, lastRun, verificationInProgress, pendingTimers, genVars>>

\* the 8 s timer expires: setVerificationInProgress(false)
TimerFires ==
    /\ pendingTimers > 0
    /\ verificationInProgress' = FALSE
    /\ pendingTimers' = pendingTimers - 1
    /\ UNCHANGED <<mounted, carbonMetrics, drawnArea, registryPresent, effectPending,
                   anomalies, anomalyLayersRef, registryCalls, lastRun, genVars>>

\* unmount: the effect's cleanup clears the timer
Unmount ==
    /\ mounted
    /\ mounted' = FALSE
    /\ pendingTimers' = clearTimeout(pendingTimers)
    /\ effectPending' = FALSE
    /\ UNCHANGED <<carbonMetrics, drawnArea, registryPresent, anomalies,
                   anomalyLayersRef, registryCalls, lastRun, verificationInProgress,
                   genVars>>

Init ==
    /\ Constructed
    /\ carbonMetrics \in MetricsInputs
    /\ drawnArea \in AreaInputs
    /\ registryPresent \in BOOLEAN
    /\ GenIdle
    /\ LayerIdle
    /\ WidgetIdle
    /\ centerPolygon = Null
    /\ count = 0

\* the detection runs of one mounted component: the effect and the changes
\* of its dependencies
Next == RunEffect \/ SetCarbonMetrics \/ SetDrawnArea

Spec == Init /\ [][Next]_vars

\* the component's whole life: detection runs, the timer and the unmount
NextLifecycle == RunEffect \/ SetCarbonMetrics \/ SetDrawnArea \/ TimerFires \/ Unmount

SpecLifecycle == Init /\ [][NextLifecycle]_vars

\* the life of a component whose dependencies move between a few values:
\* metrics with and without anomalies, a triangle or no drawn area
TimerMetrics ==
    {Null, Metrics(2, 1, Some(Fin(1, 1))), Metrics(0, 1, Some(Fin(1, 1))),
     Metrics(MaxStocks, 1, Null)}
TimerAreas == {Null, Some(Polygon(MaxVerts))}

InitTimer ==
    /\ Init
    /\ carbonMetrics \in TimerMetrics
    /\ drawnArea \in TimerAreas

NextTimer ==
    \/ RunEffect
    \/ SetCarbonMetrics /\ carbonMetrics' \in TimerMetrics
    \/ SetDrawnArea /\ drawnArea' \in TimerAreas
    \/ TimerFires
    \/ Unmount

\* the step that consumes the pending effect of a mounted component
EffectConsumed == mounted /\ effectPending /\ effectPending' = FALSE

\* React runs a pending effect and the browser fires an armed timer. The
\* effect's fairness is stated on effectPending: RunEffect is enabled exactly
\* when mounted /\ effectPending and every RunEffect step clears effectPending,
\* so this is weak fairness of RunEffect with its enabling condition read
\* from the state.
SpecTimer ==
    /\ InitTimer
    /\ [][NextTimer]_vars
    /\ WF_effectPending(EffectConsumed)
    /\ WF_vars(TimerFires)

(***************************************************************************)
(* AnomalyDetectionLayer.renderLayers: the two sub-layers and the value     *)
(* each accessor gives for each anomaly of props.data.                      *)
(***************************************************************************)
\* the generators' and the component's own variables
genState == <<pc, centerPolygon, count, center, i, genAnomalies, severityIndex,
              typeIndex, result>>
compState == <<mounted, carbonMetrics, drawnArea, registryPresent, effectPending,
               anomalies, anomalyLayersRef, registryCalls, lastRun,
               verificationInProgress, pendingTimers>>

\* the component constructed, its inputs not yet given
ComponentIdle ==
    /\ Constructed
    /\ carbonMetrics = Null
    /\ drawnArea = Null
    /\ registryPresent = FALSE

MaxShown == 2
MaxId == 2

\* data.selectedId || null: undefined and 0 both become null
selectedIdOf(data) ==
    IF IsNull(data.selectedId) \/ Val(data.selectedId) = 0
    THEN Null
    ELSE data.selectedId

\* selectedId === d.id
IsSelected(selectedId, d) == selectedId = Some(d.id)

severityColors(severity) ==
    CASE severity = "high" -> <<255, 59, 48, 200>>
      [] severity = "medium" -> <<255, 149, 0, 200>>
      [] severity = "low" -> <<255, 204, 0, 200>>
      [] OTHER -> Undefined

\* the fill accessor without the highlight of the selected anomaly
getFillColorNoHighlight(selectedId, d) == severityColors(d.severity)
getFillColor(selectedId, d) ==
    IF IsSelected(selectedId, d)
    THEN <<255, 255, 255, 220>>
    ELSE severityColors(d.severity)

getLineColor(selectedId, d) ==
    IF IsSelected(selectedId, d) THEN <<0, 0, 0, 255>> ELSE <<255, 255, 255>>

getLineWidth(selectedId, d) == IF IsSelected(selectedId, d) THEN 2 ELSE 1

\* d.radius || 200
getRadius(d) == IF IsNull(d.radius) \/ Val(d.radius) = 0 THEN 200 ELSE Val(d.radius)

\* `${d.id}`
getText(d) == ToString(d.id)

getColor(selectedId, d) ==
    IF IsSelected(selectedId, d) THEN <<0, 0, 0, 255>> ELSE <<255, 255, 255>>

getSize(selectedId, d) == IF IsSelected(selectedId, d) THEN 16 ELSE 14

\* what renderLayers returns for props.data: no layer without anomalies,
\* else the scatterplot layer and the text layer with their accessors applied
\* to every anomaly of the data
LayersOf(data) ==
    IF IsNull(data) \/ IsNull(Val(data).anomalies)
          \/ Len(Val(Val(data).anomalies)) = 0
    THEN <<>>
    ELSE LET shown == Val(Val(data).anomalies)
             selectedId == selectedIdOf(Val(data))
         IN  << [id |-> "-points",
                 updateTriggers |-> selectedId,
                 data |-> [j \in 1 .. Len(shown) |->
                     [position |-> shown[j].position,
                      radius |-> getRadius(shown[j]),
                      fillColor |-> getFillColor(selectedId, shown[j]),
                      lineColor |-> getLineColor(selectedId, shown[j]),
                      lineWidth |-> getLineWidth(selectedId, shown[j])]]],
                [id |-> "-labels",
                 updateTriggers |-> selectedId,
                 data |-> [j \in 1 .. Len(shown) |->
                     [position |-> shown[j].position,
                      text |-> getText(shown[j]),
                      color |-> getColor(selectedId, shown[j]),
                      size |-> getSize(selectedId, shown[j])]]] >>

\* one call of renderLayers on the current props
renderLayers ==
    /\ IsNull(renderedLayers)
    /\ renderedLayers' = Some(LayersOf(layerData))
    /\ UNCHANGED <<layerData, uiVars, widgetVars, genState, compState>>

\* the selected ids a parent can pass: none, 0, an id shown or one not shown
SelectedIds == {Null} \cup {Some(n) : n \in 0 .. MaxId + 1}

\* the parent passes a new selectedId: the layer is rendered again
SetSelectedId ==
    /\ ~IsNull(layerData)
    /\ ~IsNull(renderedLayers)
    /\ \E sel \in SelectedIds :
           /\ sel # Val(layerData).selectedId
           /\ layerData' = Some([Val(layerData) EXCEPT !.selectedId = sel])
    /\ renderedLayers' = Null
    /\ UNCHANGED <<uiVars, widgetVars, genState, compState>>

\* an anomaly of the data, with or without its optional radius
ShownPoint(n, severity, withRadius) ==
    [id |-> n,
     position |-> defaultCenter,
     severity |-> severity,
     type |-> "Deforestation",
     description |-> "Potential unauthorized clearing detected",
     radius |-> IF withRadius THEN Some(radiusMap(severity)) ELSE Null]

ShownPoints ==
    {ShownPoint(n, severity, TRUE) : n \in 0 .. MaxId, severity \in {"high", "medium", "low"}}
        \cup {ShownPoint(1, "low", FALSE)}

RECURSIVE ListsUpTo(_, _)
ListsUpTo(S, n) ==
    IF n = 0 THEN {<<>>}
    ELSE LET shorter == ListsUpTo(S, n - 1)
         IN  shorter \cup {Append(l, x) : l \in shorter, x \in S}

\* props.data: missing, without anomalies, or with a list of anomalies
LayerInputs ==
    {Null} \cup
    {Some([anomalies |-> list, selectedId |-> sel]) :
        list \in {Null} \cup {Some(l) : l \in ListsUpTo(ShownPoints, MaxShown)},
        sel \in SelectedIds}

InitLayer ==
    /\ layerData \in LayerInputs
    /\ renderedLayers = Null
    /\ GenIdle
    /\ centerPolygon = Null
    /\ count = 0
    /\ ComponentIdle
    /\ WidgetIdle

NextLayer == renderLayers \/ SetSelectedId

SpecLayer == InitLayer /\ [][NextLayer]_vars

(***************************************************************************)
(* The VerificationStep component's user events: hover and click on the     *)
(* markers of the points layer, the list's View buttons, the modal's Close. *)
(***************************************************************************)
\* the object onHover passes to setSelectedAnomaly for the feature info.object
HoveredAnomaly(feature) ==
    [id |-> feature.properties.id,
     severity |-> feature.properties.severity,
     type |-> feature.properties.type,
     description |-> feature.properties.description,
     location |-> feature.coordinates]

\* the markers of the stored anomaly-points layer
Markers == IF anomalyLayersRef = <<>> THEN <<>> ELSE anomalyLayersRef[2].features

\* the modal shown whenever the details flag is set
AnomalyDetailsModalFlagOnly ==
    [displayed |-> showAnomalyDetails, anomaly |-> selectedAnomaly]
\* if (!selectedAnomaly || !showAnomalyDetails) return null; else the details
\* of selectedAnomaly
AnomalyDetailsModal ==
    [displayed |-> ~(IsNull(selectedAnomaly) \/ ~showAnomalyDetails),
     anomaly |-> selectedAnomaly]

\* onHover with info.object set: the pointer is over a marker
HoverMarker ==
    /\ mounted
    /\ \E j \in 1 .. Len(Markers) :
           /\ selectedAnomaly' = Some(HoveredAnomaly(Markers[j]))
           /\ lastEvent' = <<"hover", Markers[j]>>
    /\ UNCHANGED <<showAnomalyDetails, layerVars, widgetVars, genState, compState>>

\* onHover without info.object: the pointer is over no marker
HoverOff ==
    /\ mounted
    /\ Markers # <<>>
    /\ selectedAnomaly' = Null
    /\ lastEvent' = <<"hoverOff">>
    /\ UNCHANGED <<showAnomalyDetails, layerVars, widgetVars, genState, compState>>

\* onClick of the points layer; the event records what was inspected then
ClickMarker ==
    /\ mounted
    /\ Markers # <<>>
    /\ showAnomalyDetails' = TRUE
    /\ lastEvent' = <<"click", selectedAnomaly>>
    /\ UNCHANGED <<selectedAnomaly, layerVars, widgetVars, genState, compState>>

\* the View button of entry j of the anomaly list
ViewButton ==
    /\ mounted
    /\ \E j \in 1 .. Len(anomalies) :
           /\ selectedAnomaly' = Some(anomalies[j])
           /\ lastEvent' = <<"view", anomalies[j]>>
    /\ showAnomalyDetails' = TRUE
    /\ UNCHANGED <<layerVars, widgetVars, genState, compState>>

\* the X button and the Close button of the modal
Close ==
    /\ mounted
    /\ AnomalyDetailsModal.displayed
    /\ showAnomalyDetails' = FALSE
    /\ lastEvent' = <<"close">>
    /\ UNCHANGED <<selectedAnomaly, layerVars, widgetVars, genState, compState>>

\* one mounted component on a triangle or without a drawn area
InitUI ==
    /\ Init
    /\ ~registryPresent
    /\ drawnArea \in {Null, Some(Polygon(MaxVerts))}

NextUI == RunEffect \/ HoverMarker \/ HoverOff \/ ClickMarker \/ ViewButton \/ Close

SpecUI == InitUI /\ [][NextUI]_vars

(***************************************************************************)
(* The widget's Content component: the step and its four handlers. The     *)
(* drawing context behind useDrawing() is not part of these sources; its    *)
(* calls are recorded in contextCalls and their effect is the one their     *)
(* names state.                                                             *)
(***************************************************************************)
Steps == {"draw", "measurement", "report", "verification"}

\* what the VerificationStep component holds, apart from the context's values
detectionState == <<mounted, registryPresent, effectPending, anomalies,
                    anomalyLayersRef, registryCalls, lastRun,
                    verificationInProgress, pendingTimers>>

\* a back action that always returns to the first step
PreviousStepAlwaysDraw(s) == "draw"
\* the setStep call of handleBack
PreviousStep(s) ==
    CASE s = "measurement" -> "draw"
      [] s = "report" -> "measurement"
      [] s = "verification" -> "report"
      [] OTHER -> s

\* a back action that clears the drawings from every step
ClearsDrawingsOnEveryBack(s) == TRUE
\* handleBack calls clearDrawings() in the branch step === "measurement"
ClearsDrawings(s) == s = "measurement"

\* the context calls of handleBack, in call order
BackCalls(mode, s) ==
    (IF mode THEN <<"endDrawingMode">> ELSE <<>>)
        \o (IF ClearsDrawings(s) THEN <<"clearDrawings">> ELSE <<>>)

\* the drawing context: drawing mode after endDrawingMode()
endDrawingMode(mode) == FALSE
\* the drawing context: the drawn area after clearDrawings()
clearDrawings(area) == Null

\* what the handler about to run sees
Seen(handler) == <<handler, step, drawingMode, drawnArea, carbonMetrics>>

\* the back button, rendered when step !== "draw"
handleBack ==
    /\ step # "draw"
    /\ step' = PreviousStep(step)
    /\ contextCalls' = BackCalls(drawingMode, step)
    /\ drawingMode' = IF drawingMode THEN endDrawingMode(drawingMode) ELSE drawingMode
    /\ IF ClearsDrawings(step)
       THEN /\ drawnArea' = clearDrawings(drawnArea)
            /\ carbonMetrics' \in {carbonMetrics, Null}
       ELSE UNCHANGED <<drawnArea, carbonMetrics>>
    /\ lastEvent' = Seen("handleBack")
    /\ UNCHANGED <<selectedAnomaly, showAnomalyDetails, layerVars, genState, detectionState>>

\* onCompleteDraw of DrawStep, rendered when step === "draw"
handleCompleteDraw ==
    /\ step = "draw"
    /\ step' = "measurement"
    /\ contextCalls' = <<>>
    /\ lastEvent' = Seen("handleCompleteDraw")
    /\ UNCHANGED <<drawingMode, carbonMetrics, drawnArea, selectedAnomaly,
                   showAnomalyDetails, layerVars, genState, detectionState>>

\* onCreateReport of MeasurementStep, rendered when step === "measurement"
handleCreateReport ==
    /\ step = "measurement"
    /\ step' = "report"
    /\ contextCalls' = <<>>
    /\ lastEvent' = Seen("handleCreateReport")
    /\ UNCHANGED <<drawingMode, carbonMetrics, drawnArea, selectedAnomaly,
                   showAnomalyDetails, layerVars, genState, detectionState>>

\* onProceedToVerification of ReportStep, rendered when step === "report"
handleProceedToVerification ==
    /\ step = "report"
    /\ step' = "verification"
    /\ contextCalls' = <<>>
    /\ lastEvent' = Seen("handleProceedToVerification")
    /\ UNCHANGED <<drawingMode, carbonMetrics, drawnArea, selectedAnomaly,
                   showAnomalyDetails, layerVars, genState, detectionState>>

\* the drawing context: the user switches drawing mode on
StartDrawingMode ==
    /\ ~drawingMode
    /\ drawingMode' = TRUE
    /\ contextCalls' = <<>>
    /\ lastEvent' = Seen("startDrawingMode")
    /\ UNCHANGED <<step, carbonMetrics, drawnArea, selectedAnomaly,
                   showAnomalyDetails, layerVars, genState, detectionState>>

\* the drawing context: the user draws an area and its metrics are computed
DrawArea ==
    /\ drawingMode
    /\ drawnArea' \in TimerAreas \ {Null, drawnArea}
    /\ carbonMetrics' \in TimerMetrics \ {Null}
    /\ contextCalls' = <<>>
    /\ lastEvent' = Seen("draw")
    /\ UNCHANGED <<step, drawingMode, selectedAnomaly, showAnomalyDetails,
                   layerVars, genState, detectionState>>

\* the widget on its first render, nothing drawn, drawing mode on or off
InitWidget ==
    /\ step = "draw"
    /\ drawingMode \in BOOLEAN
    /\ contextCalls = <<>>
    /\ ComponentIdle
    /\ LayerIdle
    /\ GenIdle
    /\ centerPolygon = Null
    /\ count = 0

NextWidget ==
    \/ handleBack
    \/ handleCompleteDraw
    \/ handleCreateReport
    \/ handleProceedToVerification
    \/ StartDrawingMode
    \/ DrawArea

SpecWidget == InitWidget /\ [][NextWidget]_vars

(***************************************************************************)
(* Properties of generateDummyAnomalies, checked under SpecGen.            *)
(***************************************************************************)
Returned == pc = "done" /\ ~IsNull(result)
ValidPolygon == ~IsNull(centerPolygon) /\ Len(Val(centerPolygon)) >= 3
Records(list) == {list[j] : j \in 1 .. Len(list)}

\* lo <= x <= hi
Between(x, lo, hi) == JsLeq(lo, x) /\ JsLeq(x, hi)
\* |p - c| <= tol on both axes
WithinOf(p, c, tol) ==
    /\ Between(JsSub(p[1], c[1]), JsNeg(tol), tol)
    /\ Between(JsSub(p[2], c[2]), JsNeg(tol), tol)

VertexAverage(polygon) == <<AxisAverage(polygon, 1), AxisAverage(polygon, 2)>>

\* C1: a call with a polygon of at least 3 vertices and a count N >= 0
\* returns exactly N records, each within 0.02 degrees of the polygon's
\* vertex average on both axes, whatever was drawn.
C1_CountAndSpread ==
    (Returned /\ ValidPolygon) =>
        /\ Len(Val(result)) = count
        /\ \A r \in Records(Val(result)) :
              WithinOf(r.position, VertexAverage(Val(centerPolygon)), Fin(2, 100))

\* a returned batch of two around a real centroid, one record at the west
\* and south limit (-0.02, -0.02) of the spread
C1_Witness ==
    /\ Returned /\ ValidPolygon /\ count = 2 /\ Len(Val(result)) = 2
    /\ \E r \in Records(Val(result)) :
          LET c == VertexAverage(Val(centerPolygon))
          IN  /\ JsSub(r.position[1], c[1]) = Fin(-2, 100)
              /\ JsSub(r.position[2], c[2]) = Fin(-2, 100)

ShortPolygon == IsNull(centerPolygon) \/ Len(Val(centerPolygon)) < 3

\* C2: with a null polygon or one of fewer than 3 vertices the reference
\* point is the fixed default [101.4383, 0.5104], so every returned position
\* lies in [101.4183, 101.4583] x [0.4904, 0.5304]; the call returns.
C2_DefaultCenter ==
    /\ (pc # "call" /\ ShortPolygon) =>
          center = <<Fin(1014383, 10000), Fin(5104, 10000)>>
    /\ (Returned /\ ShortPolygon) =>
          /\ Len(Val(result)) = count
          /\ \A r \in Records(Val(result)) :
                /\ Between(r.position[1], Fin(1014183, 10000), Fin(1014583, 10000))
                /\ Between(r.position[2], Fin(4904, 10000), Fin(5304, 10000))

\* a returned, non-empty batch for a polygon of two vertices, whose vertex
\* average is not the default point
C2_Witness ==
    /\ Returned /\ ~IsNull(centerPolygon) /\ Len(Val(centerPolygon)) = 2
    /\ Len(Val(result)) >= 1
    /\ VertexAverage(Val(centerPolygon)) # center

\* C3: the record at 0-based index j has id j + 1, so the ids of a returned
\* batch are exactly 1..N, distinct and increasing.
C3_SequentialIds ==
    /\ \A j \in 1 .. Len(genAnomalies) : genAnomalies[j].id = j
    /\ Returned =>
          /\ \A j \in 1 .. Len(Val(result)) : Val(result)[j].id = j
          /\ {r.id : r \in Records(Val(result))} = 1 .. count

\* a returned batch of two records
C3_Witness == Returned /\ Len(Val(result)) = 2 /\ Val(result)[2].id = 2

\* C4: every record's radius is fixed by its severity: high 300,
\* medium 200, low 150.
C4_RadiusBySeverity ==
    \A r \in Records(genAnomalies) \cup
             (IF Returned THEN Records(Val(result)) ELSE {}) :
        /\ r.severity = "high" => r.radius = 300
        /\ r.severity = "medium" => r.radius = 200
        /\ r.severity = "low" => r.radius = 150

\* a returned batch holding a high and a low record
C4_Witness ==
    /\ Returned
    /\ \E r \in Records(Val(result)) : r.severity = "high" /\ r.radius = 300
    /\ \E r \in Records(Val(result)) : r.severity = "low" /\ r.radius = 150

\* the severity the 10-slot table gives slot s: 2 high, 5 medium, 3 low
SlotSeverity(s) == IF s < 2 THEN "high" ELSE IF s < 7 THEN "medium" ELSE "low"

\* C5: every record's severity is high, medium or low, selected by an index
\* in 0..9 of a table of 10 slots (2 high, 5 medium, 3 low); at every
\* iteration each of the slots 0..9 is the index of some draw.
C5_SeveritySlots ==
    /\ \A r \in Records(genAnomalies) : r.severity \in {"high", "medium", "low"}
    /\ i > 0 =>
          /\ severityIndex \in 0 .. 9
          /\ genAnomalies[i].severity = SlotSeverity(severityIndex)
    /\ (pc = "loop" /\ i < count) =>
          \A s \in 0 .. 9 : \E u \in RandomDraws : SeverityIndex(u) = s

\* the last slot was drawn in the second iteration, after a high record
C5_Witness ==
    /\ i = 2 /\ severityIndex = 9
    /\ genAnomalies[2].severity = "low" /\ genAnomalies[1].severity = "high"

(***************************************************************************)
(* Properties of detectAnomalies, checked under Spec.                      *)
(***************************************************************************)
\* the effect has run on the current carbonMetrics and drawnArea
AfterRun == lastRun # "none" /\ ~effectPending
\* that run had a polygon of at least one vertex and metrics
AfterFullRun ==
    /\ AfterRun
    /\ ~IsNull(carbonMetrics)
    /\ ~IsNull(drawnArea) /\ Len(Val(drawnArea)) > 0

Ids(list) == [j \in 1 .. Len(list) |-> list[j].id]

\* C6: after a detection run whose polygon is absent or has no vertex, or
\* whose carbonMetrics is absent, the anomaly list is empty, also when an
\* earlier run had produced anomalies.
C6_EmptyOnMissingInput ==
    (AfterRun /\ (IsNull(carbonMetrics) \/ IsNull(drawnArea) \/ Val(drawnArea) = <<>>))
        => anomalies = <<>>

\* forestGrowth / (carbonStocks - forestGrowth) * 100 > 20 over the integers;
\* with a zero baseline the quotient is not a number above 20
GrowthExceeds20(m) ==
    LET fg == m.forestGrowth.n
        baseline == m.carbonStocks.n - m.forestGrowth.n
    IN  \/ baseline > 0 /\ 100 * fg > 20 * baseline
        \/ baseline < 0 /\ 100 * fg < 20 * baseline

IsGrowthAnomalyAt(a, polygon) ==
    /\ a.id = 1
    /\ a.severity = "high"
    /\ a.type = "Unusual Carbon Growth"
    /\ a.location = VertexAverage(polygon)

\* C7: after a run with a non-empty polygon and metrics, the list holds the
\* anomaly with id 1, severity high, type "Unusual Carbon Growth" at the
\* polygon's vertex average iff forestGrowth / (carbonStocks - forestGrowth)
\* * 100 > 20; at exactly 20, below it or negative there is none.
C7_GrowthAnomalyIffAbove20 ==
    AfterFullRun =>
        LET present == \E a \in Records(anomalies) :
                           IsGrowthAnomalyAt(a, Val(drawnArea))
            any == \E a \in Records(anomalies) :
                       a.id = 1 \/ a.type = "Unusual Carbon Growth"
        IN  /\ present <=> GrowthExceeds20(Val(carbonMetrics))
            /\ any => present

\* a run on the largest polygon with a growth of 25 % reported the anomaly
C7_Witness ==
    /\ AfterFullRun
    /\ Len(Val(drawnArea)) = MaxVerts
    /\ Val(carbonMetrics).carbonStocks = Fin(5, 1)
    /\ Val(carbonMetrics).forestGrowth = Fin(1, 1)
    /\ Len(anomalies) > 0 /\ IsGrowthAnomalyAt(anomalies[1], Val(drawnArea))

\* C8: after a run that got past the guard with carbonStocks = forestGrowth,
\* the percentage is 0, not a division, and the list holds no "Unusual Carbon
\* Growth" anomaly, whatever forestGrowth and the polygon are.
C8_ZeroBaselineIsZero ==
    (AfterRun /\ lastRun = "full"
        /\ Val(carbonMetrics).carbonStocks = Val(carbonMetrics).forestGrowth)
        => /\ calculateForestGrowthPercentage(carbonMetrics) = Fin(0, 1)
           /\ \A a \in Records(anomalies) :
                  a.id # 1 /\ a.type # "Unusual Carbon Growth"

\* a run with carbonStocks = forestGrowth = 1 that reported the three
\* demonstration anomalies and no growth anomaly
C8_Witness ==
    /\ AfterFullRun
    /\ Val(carbonMetrics).carbonStocks = Fin(1, 1)
    /\ Val(carbonMetrics).forestGrowth = Fin(1, 1)
    /\ Ids(anomalies) = <<2, 3, 4>>

\* minLon <= lon <= maxLon and minLat <= lat <= maxLat over polygon's vertices
InBoundingBox(p, polygon) ==
    \E w \in Records(polygon), e \in Records(polygon),
       s \in Records(polygon), n \in Records(polygon) :
        /\ JsLeq(w[1], p[1]) /\ JsLeq(p[1], e[1])
        /\ JsLeq(s[2], p[2]) /\ JsLeq(p[2], n[2])

DemoIds == {2, 3, 4}
DemoPart(list) == SelectSeq(list, LAMBDA a : a.id \in DemoIds)

\* C9: after a run with a non-empty polygon and a truthy area the list holds
\* exactly the anomalies 2, 3, 4 (medium Boundary Inconsistency, medium LULC
\* Classification Error, high Potential Deforestation) whatever carbonStocks
\* and forestGrowth are, each inside the bounding box of the vertices; with a
\* zero or missing area it holds none of them.
C9_DemoAnomalies ==
    AfterFullRun =>
        LET demo == DemoPart(anomalies)
            area == Val(carbonMetrics).area
        IN  IF ~IsNull(area) /\ Val(area) # Fin(0, 1)
            THEN /\ [j \in 1 .. Len(demo) |->
                        <<demo[j].id, demo[j].severity, demo[j].type>>]
                    = << <<2, "medium", "Boundary Inconsistency">>,
                         <<3, "medium", "LULC Classification Error">>,
                         <<4, "high", "Potential Deforestation">> >>
                 /\ \A a \in Records(demo) : InBoundingBox(a.location, Val(drawnArea))
            ELSE demo = <<>>

\* a run on the largest polygon without a growth anomaly whose three
\* demonstration anomalies are not all at the same place
C9_Witness ==
    /\ AfterFullRun
    /\ Len(Val(drawnArea)) = MaxVerts
    /\ Ids(anomalies) = <<2, 3, 4>>
    /\ anomalies[1].location # anomalies[3].location
    /\ \A a \in Records(anomalies) : InBoundingBox(a.location, Val(drawnArea))

\* C10: the anomaly list is in rule order: the ids are strictly increasing
\* and the id sequence is one of [], [1], [2,3,4], [1,2,3,4].
C10_RuleOrder ==
    /\ Ids(anomalies) \in {<<>>, <<1>>, <<2, 3, 4>>, <<1, 2, 3, 4>>}
    /\ \A j \in 1 .. Len(anomalies) - 1 : anomalies[j].id < anomalies[j + 1].id

\* a run that reported the growth anomaly and the three demonstration ones
C10_Witness == AfterFullRun /\ Ids(anomalies) = <<1, 2, 3, 4>>

\* ---------------------------------------------------------------------
\* Overlay layers of a detection run
\* ---------------------------------------------------------------------

\* the run stored a non-empty anomaly list
AfterNonEmptyRun == AfterFullRun /\ anomalies # <<>>

\* p moved by sLon * 0.005 degrees in longitude and sLat * 0.005 in latitude
Shifted(p, sLon, sLat) ==
    <<JsAdd(p[1], Fin(sLon * 5, 1000)), JsAdd(p[2], Fin(sLat * 5, 1000))>>

FiniteLocation(a) == IsFin(a.location[1]) /\ IsFin(a.location[2])

StoredFeatures ==
    IF anomalyLayersRef = <<>>
    THEN <<>>
    ELSE anomalyLayersRef[1].features \o anomalyLayersRef[2].features

\* C12: after every detection run the stored overlay layers are derived from
\* exactly the anomaly list of that run: a run that yields anomalies stores
\* their area and point features, and a run that yields none, or returns
\* early on a missing input, leaves no feature of an earlier run.
C12_LayersOfLastRun ==
    AfterRun =>
        IF lastRun = "full" /\ anomalies # <<>>
        THEN anomalyLayersRef = Layers(anomalies)
        ELSE StoredFeatures = <<>>

\* the layer ids and visibilities the last run passed to the registry
CallsMade == [k \in 1 .. Len(registryCalls) |->
                 <<registryCalls[k].id, registryCalls[k].visible>>]

\* the lists a full run on the current inputs can yield, whatever the registry
PossibleAnomalies ==
    {DetectedAnomalies(Val(drawnArea), carbonMetrics, u) : u \in DrawsOfRun}

\* C13: registration is best-effort. A run calls the registry exactly twice,
\* for "anomaly-areas" then for "anomaly-points", each with visible = true,
\* when the registry is present and the run yields at least one anomaly, and
\* makes no call otherwise; with or without the registry the run stores a
\* list the inputs can yield and, if non-empty, the layers built from it.
C13_BestEffortRegistration ==
    AfterRun =>
        /\ CallsMade = IF lastRun = "full" /\ anomalies # <<>> /\ registryPresent
                       THEN << <<"anomaly-areas", TRUE>>, <<"anomaly-points", TRUE>> >>
                       ELSE <<>>
        /\ lastRun = "full" =>
               /\ anomalies \in PossibleAnomalies
               /\ anomalies # <<>> => anomalyLayersRef = Layers(anomalies)

\* a run with the registry present that yielded anomalies and made two calls
C13_Witness ==
    /\ AfterNonEmptyRun
    /\ registryPresent
    /\ Len(registryCalls) = 2
    /\ registryCalls[1].name = "Anomaly Areas"

\* a run without the registry that stored anomalies and both layers
C13_AbsentRegistryRun ==
    /\ AfterNonEmptyRun
    /\ ~registryPresent
    /\ registryCalls = <<>>
    /\ anomalyLayersRef = Layers(anomalies)

\* ---------------------------------------------------------------------
\* Selection highlighting, checked under SpecLayer
\* ---------------------------------------------------------------------

\* renderLayers was called on data whose anomalies all have an id >= 1
RenderedOnPositiveIds ==
    /\ ~IsNull(renderedLayers)
    /\ ~IsNull(layerData)
    /\ ~IsNull(Val(layerData).anomalies)
    /\ \A d \in Records(Val(Val(layerData).anomalies)) : d.id >= 1

FillOfSeverity(severity) ==
    CASE severity = "high" -> <<255, 59, 48, 200>>
      [] severity = "medium" -> <<255, 149, 0, 200>>
      [] severity = "low" -> <<255, 204, 0, 200>>

\* C14: renderLayers returns no layer when the data or its anomaly list is
\* absent or empty. Otherwise, for anomalies with ids >= 1, it returns the
\* points layer and the labels layer, where the anomaly whose id equals the
\* selected id has fill [255,255,255,220], line [0,0,0,255], line width 2, a
\* black label of size 16, and every other anomaly (all of them when no id
\* is selected) has the fill of its severity, a white line of width 1 and a
\* white label of size 14.
C14_SelectionHighlight ==
    /\ (/\ ~IsNull(renderedLayers)
        /\ \/ IsNull(layerData)
           \/ IsNull(Val(layerData).anomalies)
           \/ Val(Val(layerData).anomalies) = <<>>)
           => Val(renderedLayers) = <<>>
    /\ (RenderedOnPositiveIds /\ Val(Val(layerData).anomalies) # <<>>) =>
           LET shown == Val(Val(layerData).anomalies)
               sel == Val(layerData).selectedId
               layers == Val(renderedLayers)
           IN  /\ Len(layers) = 2
               /\ Len(layers[1].data) = Len(shown)
               /\ Len(layers[2].data) = Len(shown)
               /\ \A j \in 1 .. Len(shown) :
                      LET point == layers[1].data[j]
                          label == layers[2].data[j]
                      IN  IF ~IsNull(sel) /\ Val(sel) = shown[j].id
                          THEN /\ point.fillColor = <<255, 255, 255, 220>>
                               /\ point.lineColor = <<0, 0, 0, 255>>
                               /\ point.lineWidth = 2
                               /\ label.color = <<0, 0, 0, 255>>
                               /\ label.size = 16
                          ELSE /\ point.fillColor = FillOfSeverity(shown[j].severity)
                               /\ point.lineColor = <<255, 255, 255>>
                               /\ point.lineWidth = 1
                               /\ label.color = <<255, 255, 255>>
                               /\ label.size = 14

\* two anomalies rendered, the second selected and highlighted, the first not
C14_Witness ==
    /\ RenderedOnPositiveIds
    /\ Len(Val(Val(layerData).anomalies)) = 2
    /\ Val(layerData).selectedId = Some(2)
    /\ Val(Val(layerData).anomalies)[1].id = 1
    /\ Val(Val(layerData).anomalies)[2].id = 2
    /\ Val(renderedLayers)[1].data[2].fillColor = <<255, 255, 255, 220>>
    /\ Val(renderedLayers)[1].data[1].fillColor = <<255, 59, 48, 200>>
    /\ Val(renderedLayers)[2].data[2].size = 16

\* ---------------------------------------------------------------------
\* Hover, click, View and Close, checked under SpecUI
\* ---------------------------------------------------------------------

EventKind == lastEvent[1]

\* C15: a hover over a marker sets selectedAnomaly to that marker's record
\* (its id, severity, type, description and coordinates) and a hover off the
\* markers sets it to null; a marker click and a View button set the details
\* flag and Close clears it; at every moment the details view is displayed
\* exactly when selectedAnomaly is not null and the flag is set, and it shows
\* selectedAnomaly, so a click on a marker while an anomaly is inspected
\* displays the details of that anomaly.
C15_DetailsView ==
    /\ EventKind = "hover" =>
           LET marker == lastEvent[2]
           IN  selectedAnomaly = Some([id |-> marker.properties.id,
                                       severity |-> marker.properties.severity,
                                       type |-> marker.properties.type,
                                       description |-> marker.properties.description,
                                       location |-> marker.coordinates])
    /\ EventKind = "hoverOff" => selectedAnomaly = Null
    /\ EventKind \in {"click", "view"} => showAnomalyDetails
    /\ EventKind = "close" => ~showAnomalyDetails
    /\ AnomalyDetailsModal.displayed <=> (~IsNull(selectedAnomaly) /\ showAnomalyDetails)
    /\ AnomalyDetailsModal.displayed => AnomalyDetailsModal.anomaly = selectedAnomaly
    /\ (EventKind = "click" /\ ~IsNull(lastEvent[2])) =>
           /\ AnomalyDetailsModal.displayed
           /\ AnomalyDetailsModal.anomaly = lastEvent[2]

\* a click on a marker while its anomaly, the fourth of the list, is inspected
C15_Witness ==
    /\ EventKind = "click"
    /\ Len(anomalies) = 4
    /\ lastEvent[2] = Some(anomalies[4])
    /\ AnomalyDetailsModal.displayed
    /\ AnomalyDetailsModal.anomaly = Some(anomalies[4])

\* a click while no anomaly is inspected: the flag is set, nothing is displayed
C15_ClickWithoutHover ==
    /\ EventKind = "click"
    /\ IsNull(selectedAnomaly)
    /\ showAnomalyDetails
    /\ ~AnomalyDetailsModal.displayed

\* ---------------------------------------------------------------------
\* The verification-in-progress flag and its timer, checked under SpecTimer
\* ---------------------------------------------------------------------

\* a step that changes a dependency of the effect, or unmounts the component
DependencyChange == carbonMetrics' # carbonMetrics \/ drawnArea' # drawnArea

\* C16: the flag is true on mount and only the expiry of the timer changes
\* it, from true to false, never back; a run of the effect leaves exactly
\* one timer pending, at most one timer is ever pending and none after the
\* unmount, so none fires then; if the component stays mounted and the
\* dependencies stop changing the flag eventually becomes false; and the
\* list and the layers a full run stores are those its inputs yield, whatever
\* the flag's value.
C16_ProgressFlag ==
    /\ verificationInProgress = TRUE
    /\ [](lastRun = "none" /\ mounted => verificationInProgress)
    /\ [][verificationInProgress' # verificationInProgress =>
              /\ verificationInProgress /\ ~verificationInProgress'
              /\ mounted
              /\ pendingTimers = 1 /\ pendingTimers' = 0]_vars
    /\ [][~verificationInProgress => ~verificationInProgress']_vars
    /\ [][(effectPending /\ ~effectPending' /\ mounted') => pendingTimers' = 1]_vars
    /\ [](pendingTimers <= 1)
    /\ [](~mounted => pendingTimers = 0)
    /\ [][~mounted => verificationInProgress' = verificationInProgress]_vars
    /\ ([]mounted /\ <>[][~DependencyChange]_vars) => <>~verificationInProgress
    /\ [](AfterFullRun /\ mounted =>
              /\ anomalies \in PossibleAnomalies
              /\ anomalies # <<>> => anomalyLayersRef = Layers(anomalies))

\* a run of the effect after the timer fired: the flag is false, a new timer
\* is pending and the run stored its four anomalies
C16_Witness ==
    /\ mounted
    /\ ~verificationInProgress
    /\ pendingTimers = 1
    /\ AfterFullRun
    /\ Len(anomalies) = 4
    /\ anomalyLayersRef = Layers(anomalies)

\* ---------------------------------------------------------------------
\* The widget's steps, checked under SpecWidget
\* ---------------------------------------------------------------------

\* the handler that ran last and the step, drawing mode, drawn area and
\* metrics it saw
Handler == lastEvent[1]
StepSeen == lastEvent[2]
ModeSeen == lastEvent[3]
AreaSeen == lastEvent[4]
MetricsSeen == lastEvent[5]
ForwardHandlers ==
    {"handleCompleteDraw", "handleCreateReport", "handleProceedToVerification"}

\* C17: the step starts at draw and is always one of the four steps; every
\* change of the step is complete-draw from draw to measurement, create-report
\* from measurement to report, proceed-to-verification from report to
\* verification, or back, exactly one step toward draw; each handler runs
\* only in the step that offers it and back never in draw; so no change
\* skips a step, verification is entered only from report and left only
\* backwards.
C17_StepMachine ==
    /\ step = "draw"
    /\ [](step \in {"draw", "measurement", "report", "verification"})
    /\ [][step' # step =>
              <<step, step'>> \in
                  { <<"draw", "measurement">>, <<"measurement", "report">>,
                    <<"report", "verification">>, <<"verification", "report">>,
                    <<"report", "measurement">>, <<"measurement", "draw">> }]_vars
    /\ [](Handler = "handleCompleteDraw" => StepSeen = "draw" /\ step = "measurement")
    /\ [](Handler = "handleCreateReport" => StepSeen = "measurement" /\ step = "report")
    /\ [](Handler = "handleProceedToVerification" =>
              StepSeen = "report" /\ step = "verification")
    /\ [](Handler = "handleBack" =>
              <<StepSeen, step>> \in
                  { <<"verification", "report">>, <<"report", "measurement">>,
                    <<"measurement", "draw">> })
    /\ [][step' = "verification" /\ step # "verification" => step = "report"]_vars
    /\ [][step = "verification" => step' \in {"verification", "report"}]_vars

\* back from verification: the widget went draw, measurement, report,
\* verification and is in report again
C17_Witness ==
    /\ Handler = "handleBack"
    /\ StepSeen = "verification"
    /\ step = "report"

C18_BackFromReportKeepsArea ==
    /\ Handler = "handleBack"
    /\ StepSeen = "report"
    /\ ModeSeen
    /\ ~IsNull(drawnArea)
    /\ contextCalls = <<"endDrawingMode">>

====
